---- MODULE Spec2Model ----
(***************************************************************************)
(* Kolmo Social Engine (src/main.py): a polling agent that lists image     *)
(* files in Drive source folders, captions them, optionally stages them in *)
(* object storage, posts them to a webhook and reparents them to a         *)
(* processed or errors folder.                                             *)
(*                                                                         *)
(* The program is sequential; the model follows its control position (pc)  *)
(* through main, process_file and move_file.  Every call to an external    *)
(* service is one step whose result is chosen nondeterministically.        *)
(***************************************************************************)
EXTENDS Integers, Sequences, FiniteSets, TLC

(* ------------------------------ bounds -------------------------------- *)

\* number of image files that exist in Drive
MaxFiles == 2

(* ----------------------------- constants ------------------------------ *)

\* os.environ.get returns None for a missing variable
None == "None"

FileIds == 1..MaxFiles

\* text is a sequence of characters; these two are the whitespace str.strip removes
Whitespace == {" ", "\n"}

DEFAULT_PROMPT_LINKEDIN == <<"professional", "LinkedIn">>
DEFAULT_PROMPT_META == <<"casual", "Facebook/Instagram">>
DEFAULT_PROMPT_GBP == <<"SEO-heavy", "Google Business Profile">>

\* HTTP statuses the webhook endpoint answers with in the model
StatusCodes == {200, 304, 404, 503}

\* requests.post raised instead of returning a response
ConnectionError == -1
\* no webhook call has been made
NoResponse == 0

VARIABLES
    ID_LINKEDIN, ID_META, ID_GBP, ID_ALL,  \* source folder ids (env)
    ID_CONFIG, ID_PROCESSED, ID_ERRORS,    \* config / terminal folder ids (env)
    service,            \* main: Drive client, FALSE when get_drive_service returned None
    r2_client,          \* main: staging client, FALSE when get_r2_client returned None
    parents,            \* Drive: file id -> set of parent folder ids
    origin,             \* Drive: the parents every file had when the program started
    config_versions,    \* Drive: the contents the config folder takes while the program runs
    config_files,       \* Drive: the text/plain files get_prompts last found there, in order
    pc,                 \* control position of the program
    signal,             \* a KeyboardInterrupt has been delivered
    resumed_from,       \* the sleep ("sleep" or "sleep_err") the loop has just left
    current_prompts,    \* main: the cycle's Prompt Set
    prompt_reads,       \* the listed files (by position) the last get_prompts downloaded
    prompts_changed,    \* the cycle's Prompt Set differs from the one of the cycle before
    folder_idx,         \* main: position of the for loop in folder_map.items()
    items,              \* main: files of the current folder not yet processed
    file_id,            \* process_file: the file being processed (0 when none)
    source_type,        \* process_file: its source type
    payload,            \* process_file: form fields built so far
    cap_idx,            \* process_file: next generate_caption call of the branch
    destination_folder_id, \* move_file: destination
    previous_parents,   \* move_file: parents read by files().get
    att,                \* history of the current / last processing attempt
    cycle_log,          \* file id -> source types it was processed under in this cycle
    delivered           \* files a webhook call has succeeded for and that were not relocated

config == <<ID_LINKEDIN, ID_META, ID_GBP, ID_ALL, ID_CONFIG, ID_PROCESSED, ID_ERRORS>>
clients == <<service, r2_client>>
drive == <<parents, origin, config_versions, config_files>>
loopvars == <<current_prompts, prompt_reads, prompts_changed, folder_idx, items>>
pfvars == <<file_id, source_type, payload, cap_idx>>
mvvars == <<destination_folder_id, previous_parents>>

hist == <<cycle_log, delivered>>

vars ==
    <<config, clients, drive, pc, signal, resumed_from, loopvars, pfvars, mvvars, att, hist>>

(* ------------------------ pure helper functions ----------------------- *)

\* Python truthiness of an environment value / client: None and "" are false
Configured(id) == id # None

RECURSIVE lstrip(_)
lstrip(s) ==
    IF s # <<>> /\ Head(s) \in Whitespace THEN lstrip(Tail(s)) ELSE s

RECURSIVE rstrip(_)
rstrip(s) ==
    IF s # <<>> /\ s[Len(s)] \in Whitespace
    THEN rstrip(SubSeq(s, 1, Len(s) - 1))
    ELSE s

\* variant: only the leading whitespace is removed
stripLeading(s) == lstrip(s)

\* str.strip()
strip(s) == rstrip(lstrip(s))

\* str.lower() on the file names that occur in the model
lower(name) ==
    CASE name = "PROMPT_META.TXT" -> "prompt_meta.txt"
      [] name = "Prompt_Gbp.txt" -> "prompt_gbp.txt"
      [] OTHER -> name

\* the None that get_text_content returns, among texts
NoneText == <<None>>

\* get_text_content: the stripped text, or None when the read raised
get_text_content(file, read_ok) ==
    IF read_ok THEN strip(file.content) ELSE NoneText

\* "if content:" -- None and the empty string are falsy
Truthy(content) == content # NoneText /\ content # <<>>

DefaultPrompts ==
    [linkedin |-> DEFAULT_PROMPT_LINKEDIN,
     meta |-> DEFAULT_PROMPT_META,
     gbp |-> DEFAULT_PROMPT_GBP]

\* one iteration of the for loop of get_prompts
PromptStep(prompts, file, read_ok) ==
    LET name == lower(file.name)
        content == get_text_content(file, read_ok)
    IN  IF name = "prompt_linkedin.txt"
        THEN IF Truthy(content) THEN [prompts EXCEPT !.linkedin = content] ELSE prompts
        ELSE IF name = "prompt_meta.txt"
        THEN IF Truthy(content) THEN [prompts EXCEPT !.meta = content] ELSE prompts
        ELSE IF name = "prompt_gbp.txt"
        THEN IF Truthy(content) THEN [prompts EXCEPT !.gbp = content] ELSE prompts
        ELSE prompts

RECURSIVE PromptLoop(_, _, _, _)
PromptLoop(prompts, files, reads, i) ==
    IF i > Len(files) THEN prompts
    ELSE PromptLoop(PromptStep(prompts, files[i], reads[i]), files, reads, i + 1)

\* variant: without a listing every prompt is left empty
get_promptsNoDefaults(svc, id_config, files, list_ok, reads) ==
    IF ~svc \/ ~Configured(id_config) \/ ~list_ok
    THEN [linkedin |-> <<>>, meta |-> <<>>, gbp |-> <<>>]
    ELSE PromptLoop(DefaultPrompts, files, reads, 1)

\* get_prompts(service); list_ok: files().list succeeded; reads[i]: the
\* download of the i-th listed file succeeded
get_prompts(svc, id_config, files, list_ok, reads) ==
    IF ~svc \/ ~Configured(id_config) THEN DefaultPrompts
    ELSE IF ~list_ok THEN DefaultPrompts
    ELSE PromptLoop(DefaultPrompts, files, reads, 1)

PromptNames == {"prompt_linkedin.txt", "prompt_meta.txt", "prompt_gbp.txt"}

\* the files get_prompts passed to get_text_content and got a text for
PromptReads(svc, id_config, files, list_ok, reads) ==
    IF ~svc \/ ~Configured(id_config) \/ ~list_ok THEN {}
    ELSE {i \in 1..Len(files) : lower(files[i].name) \in PromptNames /\ reads[i]}

\* insertion into a Python dict kept as a sequence of <<key, value>>: an
\* existing key keeps its position and takes the new value
DictInsert(d, k, v) ==
    IF \E i \in 1..Len(d) : d[i][1] = k
    THEN [i \in 1..Len(d) |-> IF d[i][1] = k THEN <<k, v>> ELSE d[i]]
    ELSE Append(d, <<k, v>>)

\* folder_map.items() in iteration order
folder_map ==
    DictInsert(DictInsert(DictInsert(DictInsert(<<>>,
        ID_LINKEDIN, "linkedin"), ID_META, "meta"), ID_GBP, "gbp"), ID_ALL, "all")

\* variant: the "all" branch leaves out the gbp caption
CaptionPlanShort(st) ==
    CASE st = "linkedin" -> <<"linkedin">>
      [] st = "meta" -> <<"meta">>
      [] st = "gbp" -> <<"gbp">>
      [] st = "all" -> <<"linkedin", "meta">>
      [] OTHER -> <<>>

\* variant: the "all" branch asks for the meta caption first
CaptionPlanReordered(st) ==
    CASE st = "linkedin" -> <<"linkedin">>
      [] st = "meta" -> <<"meta">>
      [] st = "gbp" -> <<"gbp">>
      [] st = "all" -> <<"meta", "linkedin", "gbp">>
      [] OTHER -> <<>>

\* the generate_caption calls of each branch of process_file, in order
CaptionPlan(st) ==
    CASE st = "linkedin" -> <<"linkedin">>
      [] st = "meta" -> <<"meta">>
      [] st = "gbp" -> <<"gbp">>
      [] st = "all" -> <<"linkedin", "meta", "gbp">>
      [] OTHER -> <<>>

CaptionField(target) ==
    CASE target = "linkedin" -> "caption_linkedin"
      [] target = "meta" -> "caption_meta"
      [] target = "gbp" -> "caption_gbp"

EmptyPayload == [k \in {} |-> <<>>]

\* payload[k] = v
SetField(p, k, v) ==
    [x \in (DOMAIN p) \cup {k} |-> IF x = k THEN v ELSE p[x]]

\* variant: the condition tests the client only
NeedsStagingAnyType(st, r2) == r2

\* "if source_type in ['meta', 'all'] and r2_client"
NeedsStaging(st, r2) == st \in {"meta", "all"} /\ r2

\* response.raise_for_status() raises HTTPError for 4xx and 5xx only
raise_for_status(status) == 400 <= status /\ status < 600

\* variant: the update adds the destination and removes nothing
UpdateParentsAddOnly(current, dest, previous) == current \cup {dest}

\* files().update(addParents=dest, removeParents=previous)
UpdateParents(current, dest, previous) == (current \ previous) \cup {dest}

\* a finite set of file ids as a sequence.  The files of one folder are
\* interchangeable, so the order files().list returns them in is taken to be
\* the order of their ids
RECURSIVE Ordered(_)
Ordered(S) ==
    IF S = {} THEN <<>>
    ELSE LET m == CHOOSE x \in S : \A y \in S : x <= y
         IN  <<m>> \o Ordered(S \ {m})

\* variant: the query has no "in parents" condition
ListingAll(folder) == FileIds

\* files().list for an image folder: the files that have the folder as a parent
\* (every file of the model is an image that is not trashed)
Listing(folder) == {f \in FileIds : folder \in parents[f]}

(* ------------------------ attempt history record ---------------------- *)

\* att records what the current attempt has done so far.  It is started by
\* the call of process_file, kept while the loop stands between two files,
\* and cleared when the inner for loop ends.

NewAttempt(f, st) ==
    [file |-> f, type |-> st, before |-> parents[f],
     known |-> f \in delivered, \* an earlier webhook call succeeded for the file
     rest |-> Tail(items),  \* files of the folder still to be processed
     folder |-> folder_idx, \* position of the outer for loop
     failed |-> "none",     \* step whose exception entered the except clause
     returned |-> FALSE,    \* process_file returned to the poll loop
     gens |-> 0,            \* generate_caption calls made
     uploads |-> 0,         \* upload_to_r2 calls made
     upload_failed |-> FALSE,
     posts |-> 0,           \* requests.post calls made
     response |-> NoResponse,
     sent |-> EmptyPayload, \* form fields of the request made
     moves |-> <<>>,        \* destinations move_file was called with
     moved |-> None,        \* destination of the update that succeeded
     trace |-> <<>>]        \* the external calls made, in order

NoAttempt ==
    [file |-> 0, type |-> "none", before |-> {}, known |-> FALSE, rest |-> <<>>, folder |-> 0,
     failed |-> "none", returned |-> FALSE, gens |-> 0, uploads |-> 0,
     upload_failed |-> FALSE, posts |-> 0, response |-> NoResponse,
     sent |-> EmptyPayload, moves |-> <<>>, moved |-> None, trace |-> <<>>]

\* no file has been handed to process_file in this cycle
EmptyLog == [f \in FileIds |-> <<>>]

(* -------------------------------- Init -------------------------------- *)

\* folders an image can initially be in (one source folder, or two)
Placements == {{"fL"}, {"fM"}, {"fG"}, {"fA"}, {"fL", "fA"}}

PlacementRank(p) ==
    CASE p = {"fL"} -> 1 [] p = {"fM"} -> 2 [] p = {"fG"} -> 3
      [] p = {"fA"} -> 4 [] OTHER -> 5

\* the program before main has run
ProgramStart ==
    /\ service = FALSE
    /\ r2_client = FALSE
    /\ pc = "main"
    /\ signal = FALSE
    /\ resumed_from = "none"
    /\ current_prompts = DefaultPrompts
    /\ prompt_reads = {}
    /\ prompts_changed = FALSE
    /\ folder_idx = 0
    /\ items = <<>>
    /\ file_id = 0
    /\ source_type = "none"
    /\ payload = EmptyPayload
    /\ cap_idx = 0
    /\ destination_folder_id = None
    /\ previous_parents = {}
    /\ att = NoAttempt
    /\ cycle_log = EmptyLog
    /\ delivered = {}

\* a file of the config folder
TextFile(n, c) == [name |-> n, content |-> c]

Init ==
    /\ ID_LINKEDIN = "fL"
    /\ ID_META = "fM"
    /\ ID_GBP \in {"fG", None}
    /\ ID_ALL = "fA"
    /\ ID_CONFIG = "fC"
    /\ ID_PROCESSED \in {"fP", None}
    /\ ID_ERRORS \in {"fE", None}
    /\ parents \in [FileIds -> Placements]
    /\ \A f, g \in FileIds : f < g => PlacementRank(parents[f]) <= PlacementRank(parents[g])
    /\ origin = parents
    /\ config_versions = {<<>>}
    /\ config_files = <<>>
    /\ ProgramStart

(* ------------------------------- main --------------------------------- *)

\* variant: main goes on to the loop without testing the service
StartupUnchecked ==
    /\ pc = "main"
    /\ \E svc \in BOOLEAN, r2 \in BOOLEAN :
        /\ service' = svc
        /\ r2_client' = r2
        /\ pc' = "cycle"
    /\ UNCHANGED <<config, drive, signal, resumed_from, loopvars, pfvars, mvvars, att>>
    /\ UNCHANGED hist

\* main, lines 238-256: client construction; return when there is no service
Startup ==
    /\ pc = "main"
    /\ \E svc \in BOOLEAN, r2 \in BOOLEAN :
        /\ service' = svc
        /\ r2_client' = r2
        /\ pc' = IF svc THEN "cycle" ELSE "exited"
    /\ UNCHANGED <<config, drive, signal, resumed_from, loopvars, pfvars, mvvars, att>>
    /\ UNCHANGED hist

\* variant: the Prompt Set of the first cycle is kept for the later ones
StartCycleCached ==
    /\ pc = "cycle"
    /\ \E files \in config_versions, list_ok \in BOOLEAN :
        \E reads \in [1..Len(files) -> BOOLEAN] :
            /\ config_files' = files
            /\ current_prompts' = IF resumed_from = "none"
                                   THEN get_prompts(service, ID_CONFIG, files, list_ok, reads)
                                   ELSE current_prompts
            /\ prompt_reads' = PromptReads(service, ID_CONFIG, files, list_ok, reads)
    /\ prompts_changed' = (resumed_from # "none" /\ current_prompts' # current_prompts)
    /\ folder_idx' = 1
    /\ items' = <<>>
    /\ resumed_from' = "none"
    /\ pc' = "folder"
    /\ UNCHANGED <<config, clients, parents, origin, config_versions, signal, pfvars, mvvars,
                   att>>
    /\ cycle_log' = EmptyLog
    /\ UNCHANGED delivered

\* main, lines 259-263: start of a cycle, get_prompts, start of the for loop
StartCycle ==
    /\ pc = "cycle"
    /\ \E files \in config_versions, list_ok \in BOOLEAN :
        \E reads \in [1..Len(files) -> BOOLEAN] :
            /\ config_files' = files
            /\ current_prompts' = get_prompts(service, ID_CONFIG, files, list_ok, reads)
            /\ prompt_reads' = PromptReads(service, ID_CONFIG, files, list_ok, reads)
    /\ prompts_changed' = (resumed_from # "none" /\ current_prompts' # current_prompts)
    /\ folder_idx' = 1
    /\ items' = <<>>
    /\ resumed_from' = "none"
    /\ pc' = "folder"
    /\ UNCHANGED <<config, clients, parents, origin, config_versions, signal, pfvars, mvvars,
                   att>>
    /\ cycle_log' = EmptyLog
    /\ UNCHANGED delivered

\* main, lines 263-264: the for loop is exhausted, or "if not folder_id: continue"
SkipFolder ==
    /\ pc = "folder"
    /\ folder_idx <= Len(folder_map)
    /\ ~Configured(folder_map[folder_idx][1])
    /\ folder_idx' = folder_idx + 1
    /\ UNCHANGED <<config, clients, drive, pc, signal, resumed_from, current_prompts, prompt_reads, prompts_changed, items,
                   pfvars, mvvars, att>>
    /\ UNCHANGED hist

\* main, lines 266-268: files().list of the folder succeeds
ListFolder ==
    /\ pc = "folder"
    /\ folder_idx <= Len(folder_map)
    /\ Configured(folder_map[folder_idx][1])
    /\ items' = Ordered(Listing(folder_map[folder_idx][1]))
    /\ pc' = "item"
    /\ UNCHANGED <<config, clients, drive, signal, resumed_from, current_prompts, prompt_reads, prompts_changed, folder_idx,
                   pfvars, mvvars, att>>
    /\ UNCHANGED hist

\* variant: the exception of files().list is not caught and ends the process
ListFolderFailsUncaught ==
    /\ pc = "folder"
    /\ folder_idx <= Len(folder_map)
    /\ Configured(folder_map[folder_idx][1])
    /\ pc' = "killed"
    /\ UNCHANGED <<config, clients, drive, signal, resumed_from, loopvars, pfvars,
                   mvvars, att>>
    /\ UNCHANGED hist

\* main, lines 267 and 281-282: files().list raises; caught by "except Exception"
ListFolderFails ==
    /\ pc = "folder"
    /\ folder_idx <= Len(folder_map)
    /\ Configured(folder_map[folder_idx][1])
    /\ pc' = "sleep_err"
    /\ UNCHANGED <<config, clients, drive, signal, resumed_from, loopvars, pfvars, mvvars, att>>
    /\ cycle_log' = EmptyLog
    /\ UNCHANGED delivered

\* main, lines 270-272: the inner for loop is exhausted; next folder
FolderDone ==
    /\ pc = "item"
    /\ items = <<>>
    /\ folder_idx' = folder_idx + 1
    /\ pc' = "folder"
    /\ att' = NoAttempt
    /\ UNCHANGED <<config, clients, drive, signal, resumed_from, current_prompts, prompt_reads, prompts_changed, items,
                   pfvars, mvvars>>
    /\ UNCHANGED hist

\* main, lines 275-276: all folders done; time.sleep(60)
CycleComplete ==
    /\ pc = "folder"
    /\ folder_idx > Len(folder_map)
    /\ pc' = "sleep"
    /\ UNCHANGED <<config, clients, drive, signal, resumed_from, loopvars, pfvars, mvvars, att>>
    /\ cycle_log' = EmptyLog
    /\ UNCHANGED delivered

\* main, line 276 -> 258: the sleep ends; next iteration of "while True"
Wake ==
    /\ pc = "sleep"
    /\ pc' = "cycle"
    /\ resumed_from' = "sleep"
    /\ UNCHANGED <<config, clients, drive, signal, loopvars, pfvars, mvvars, att>>
    /\ UNCHANGED hist

\* main, line 283 -> 258: the sleep of the exception handler ends
WakeAfterError ==
    /\ pc = "sleep_err"
    /\ pc' = "cycle"
    /\ resumed_from' = "sleep_err"
    /\ UNCHANGED <<config, clients, drive, signal, loopvars, pfvars, mvvars, att>>
    /\ UNCHANGED hist

(* ---------------------------- process_file ---------------------------- *)

\* the dead locals of process_file and move_file after a return
ResetLocals ==
    /\ file_id' = 0
    /\ source_type' = "none"
    /\ payload' = EmptyPayload
    /\ cap_idx' = 0
    /\ destination_folder_id' = None
    /\ previous_parents' = {}

\* process_file returns normally to the inner for loop (line 272)
ReturnToLoop ==
    /\ pc' = "item"
    /\ ResetLocals

\* main line 273, process_file lines 176-180: the descriptor has its three keys
CallProcessFile ==
    /\ pc = "item"
    /\ items # <<>>
    /\ file_id' = Head(items)
    /\ items' = Tail(items)
    /\ source_type' = folder_map[folder_idx][2]
    /\ att' = NewAttempt(Head(items), folder_map[folder_idx][2])
    /\ pc' = "download"
    /\ UNCHANGED <<config, clients, drive, signal, resumed_from, current_prompts, prompt_reads, prompts_changed, folder_idx,
                   payload, cap_idx, mvvars>>
    /\ cycle_log' = [cycle_log EXCEPT ![Head(items)] = Append(@, folder_map[folder_idx][2])]
    /\ UNCHANGED delivered

\* process_file lines 176-178 are outside the try: a descriptor without one of
\* the keys raises KeyError out of process_file, into main's "except Exception"
DescriptorFails ==
    /\ pc = "item"
    /\ items # <<>>
    /\ items' = Tail(items)
    /\ att' = [NewAttempt(Head(items), folder_map[folder_idx][2])
                 EXCEPT !.failed = "descriptor"]
    /\ pc' = "sleep_err"
    /\ UNCHANGED <<config, clients, drive, signal, resumed_from, current_prompts, prompt_reads, prompts_changed, folder_idx,
                   pfvars, mvvars>>
    /\ cycle_log' = EmptyLog
    /\ UNCHANGED delivered

\* lines 184-192: the download succeeds; payload = {}
Download ==
    /\ pc = "download"
    /\ payload' = EmptyPayload
    /\ cap_idx' = 1
    /\ att' = [att EXCEPT !.trace = Append(@, "download")]
    /\ pc' = "caption"
    /\ UNCHANGED <<config, clients, drive, signal, resumed_from, loopvars, file_id, source_type,
                   mvvars>>
    /\ UNCHANGED hist

\* lines 184-189, 233: the download raises
DownloadFails ==
    /\ pc = "download"
    /\ att' = [att EXCEPT !.failed = "download", !.trace = Append(@, "download")]
    /\ pc' = "except"
    /\ UNCHANGED <<config, clients, drive, signal, resumed_from, loopvars, pfvars, mvvars>>
    /\ UNCHANGED hist

\* generate_caption's result for a prompt (response.text.strip())
Caption(prompt) == <<"caption for">> \o prompt

\* the payload after the cap_idx-th generate_caption call of the branch
\* returned; the branch sets "target" after its last call
AfterCaption(p, st, i, prompts) ==
    LET target == CaptionPlan(st)[i]
        q == SetField(p, CaptionField(target), Caption(prompts[target]))
    IN  IF i = Len(CaptionPlan(st)) THEN SetField(q, "target", <<st>>) ELSE q

\* lines 195-208: one generate_caption call returns
GenerateCaption ==
    /\ pc = "caption"
    /\ cap_idx <= Len(CaptionPlan(source_type))
    /\ payload' = AfterCaption(payload, source_type, cap_idx, current_prompts)
    /\ att' = [att EXCEPT !.gens = @ + 1,
                          !.trace = Append(@, CaptionField(CaptionPlan(source_type)[cap_idx]))]
    /\ IF cap_idx = Len(CaptionPlan(source_type))
       THEN pc' = "stage" /\ cap_idx' = 0
       ELSE pc' = "caption" /\ cap_idx' = cap_idx + 1
    /\ UNCHANGED <<config, clients, drive, signal, resumed_from, loopvars, file_id, source_type,
                   mvvars>>
    /\ UNCHANGED hist

\* variant: generate_caption logs the failure and does not re-raise
GenerateCaptionFailsSwallowed ==
    /\ pc = "caption"
    /\ cap_idx <= Len(CaptionPlan(source_type))
    /\ att' = [att EXCEPT !.gens = @ + 1, !.failed = "caption",
                          !.trace = Append(@, CaptionField(CaptionPlan(source_type)[cap_idx]))]
    /\ pc' = "stage"
    /\ UNCHANGED <<config, clients, drive, signal, resumed_from, loopvars, pfvars,
                   mvvars>>
    /\ UNCHANGED hist

\* lines 157-159, 233: generate_caption logs and re-raises
GenerateCaptionFails ==
    /\ pc = "caption"
    /\ cap_idx <= Len(CaptionPlan(source_type))
    /\ att' = [att EXCEPT !.gens = @ + 1, !.failed = "caption",
                          !.trace = Append(@, CaptionField(CaptionPlan(source_type)[cap_idx]))]
    /\ pc' = "except"
    /\ UNCHANGED <<config, clients, drive, signal, resumed_from, loopvars, pfvars, mvvars>>
    /\ UNCHANGED hist

\* lines 212-215: upload_to_r2 returns a presigned URL
Upload ==
    /\ pc = "stage"
    /\ NeedsStaging(source_type, r2_client)
    /\ payload' = SetField(payload, "image_url", <<"presigned url">>)
    /\ att' = [att EXCEPT !.uploads = @ + 1, !.trace = Append(@, "upload")]
    /\ pc' = "dispatch"
    /\ UNCHANGED <<config, clients, drive, signal, resumed_from, loopvars, file_id, source_type,
                   cap_idx, mvvars>>
    /\ UNCHANGED hist

\* variant: upload_to_r2 lets the failure propagate into process_file
UploadFailsRaises ==
    /\ pc = "stage"
    /\ NeedsStaging(source_type, r2_client)
    /\ att' = [att EXCEPT !.uploads = @ + 1, !.upload_failed = TRUE,
                          !.failed = "upload", !.trace = Append(@, "upload")]
    /\ pc' = "except"
    /\ UNCHANGED <<config, clients, drive, signal, resumed_from, loopvars, pfvars,
                   mvvars>>
    /\ UNCHANGED hist

\* lines 104-106, 214: upload_to_r2 catches the failure and returns None
UploadFails ==
    /\ pc = "stage"
    /\ NeedsStaging(source_type, r2_client)
    /\ att' = [att EXCEPT !.uploads = @ + 1, !.upload_failed = TRUE,
                          !.trace = Append(@, "upload")]
    /\ pc' = "dispatch"
    /\ UNCHANGED <<config, clients, drive, signal, resumed_from, loopvars, pfvars, mvvars>>
    /\ UNCHANGED hist

\* line 212: the condition is false
SkipStaging ==
    /\ pc = "stage"
    /\ ~NeedsStaging(source_type, r2_client)
    /\ pc' = "dispatch"
    /\ UNCHANGED <<config, clients, drive, signal, resumed_from, loopvars, pfvars, mvvars, att>>
    /\ UNCHANGED hist

\* variant: a dispatched file is moved to the errors folder
SuccessDestinationErrors == ID_ERRORS

\* line 230: the destination of the move after a successful dispatch
SuccessDestination == ID_PROCESSED

\* variant: the except clause moves to the processed folder
ErrorDestinationSwapped == ID_PROCESSED

\* line 235: the destination of the move of the except clause
ErrorDestination == ID_ERRORS

\* variant: move_file is called without testing the destination
MoveOrReturnUnchecked(dest, a) ==
    /\ pc' = "mv_get"
    /\ destination_folder_id' = dest
    /\ att' = [a EXCEPT !.moves = Append(@, dest), !.trace = Append(@, "move")]
    /\ UNCHANGED <<pfvars, previous_parents>>

\* a call of move_file(service, file_id, dest) when dest is truthy, else return
MoveOrReturn(dest, a) ==
    IF Configured(dest)
    THEN /\ pc' = "mv_get"
         /\ destination_folder_id' = dest
         /\ att' = [a EXCEPT !.moves = Append(@, dest), !.trace = Append(@, "move")]
         /\ UNCHANGED <<pfvars, previous_parents>>
    ELSE /\ ReturnToLoop
         /\ att' = [a EXCEPT !.returned = TRUE]

\* the file of the attempt, when the webhook call returned a response that
\* raise_for_status accepts
Delivery(status) ==
    IF status # ConnectionError /\ ~raise_for_status(status) THEN {file_id} ELSE {}

\* lines 224-231: requests.post returns a response; raise_for_status; on
\* success the move to the processed folder
Dispatch ==
    /\ pc = "dispatch"
    /\ \E status \in StatusCodes :
        LET a == [att EXCEPT !.posts = @ + 1, !.response = status, !.sent = payload,
                             !.trace = Append(@, "post")]
        IN  IF raise_for_status(status)
            THEN /\ att' = [a EXCEPT !.failed = "dispatch"]
                 /\ pc' = "except"
                 /\ UNCHANGED <<pfvars, mvvars>>
            ELSE MoveOrReturn(SuccessDestination, a)
    /\ delivered' = delivered \cup Delivery(att.response')
    /\ UNCHANGED <<config, clients, drive, signal, resumed_from, loopvars>>
    /\ UNCHANGED cycle_log

\* lines 224, 233: requests.post raises (no response)
DispatchRaises ==
    /\ pc = "dispatch"
    /\ att' = [att EXCEPT !.posts = @ + 1, !.response = ConnectionError,
                          !.sent = payload, !.failed = "dispatch",
                          !.trace = Append(@, "post")]
    /\ pc' = "except"
    /\ UNCHANGED <<config, clients, drive, signal, resumed_from, loopvars, pfvars, mvvars>>
    /\ UNCHANGED hist

\* variant: the except clause re-raises after logging
HandleErrorReraises ==
    /\ pc = "except"
    /\ pc' = "sleep_err"
    /\ ResetLocals
    /\ UNCHANGED <<config, clients, drive, signal, resumed_from, loopvars, att>>
    /\ UNCHANGED hist

\* lines 233-236: the except clause of process_file
HandleError ==
    /\ pc = "except"
    /\ MoveOrReturn(ErrorDestination, att)
    /\ UNCHANGED <<config, clients, drive, signal, resumed_from, loopvars>>
    /\ UNCHANGED hist

(* ------------------------------ move_file ----------------------------- *)

\* lines 163-164: files().get returns the parents
MoveGet ==
    /\ pc = "mv_get"
    /\ previous_parents' = parents[file_id]
    /\ pc' = "mv_update"
    /\ UNCHANGED <<config, clients, drive, signal, resumed_from, loopvars, pfvars,
                   destination_folder_id, att>>
    /\ UNCHANGED hist

\* variant: move_file lets the failure of the read propagate to its caller
MoveGetFailsPropagates ==
    /\ pc = "mv_get"
    /\ pc' = "except"
    /\ UNCHANGED <<config, clients, drive, signal, resumed_from, loopvars, pfvars,
                   mvvars, att>>
    /\ UNCHANGED hist

\* lines 163-164, 172-173: the read raises; logged and absorbed
MoveGetFails ==
    /\ pc = "mv_get"
    /\ ReturnToLoop
    /\ att' = [att EXCEPT !.returned = TRUE]
    /\ UNCHANGED <<config, clients, drive, signal, resumed_from, loopvars>>
    /\ UNCHANGED hist

\* lines 165-171: files().update succeeds
MoveUpdate ==
    /\ pc = "mv_update"
    /\ parents' = [parents EXCEPT ![file_id] =
                      UpdateParents(@, destination_folder_id, previous_parents)]
    /\ att' = [att EXCEPT !.moved = destination_folder_id, !.returned = TRUE]
    /\ ReturnToLoop
    /\ UNCHANGED <<config, clients, origin, config_versions, config_files, signal, resumed_from,
                   loopvars>>
    /\ cycle_log' = [cycle_log EXCEPT ![file_id] = <<>>]  \* it cannot be listed again
    /\ delivered' = delivered \ {file_id}

\* variant: move_file lets the failure of the update propagate to its caller
MoveUpdateFailsPropagates ==
    /\ pc = "mv_update"
    /\ pc' = "except"
    /\ UNCHANGED <<config, clients, drive, signal, resumed_from, loopvars, pfvars,
                   mvvars, att>>
    /\ UNCHANGED hist

\* lines 165-173: the update raises; logged and absorbed
MoveUpdateFails ==
    /\ pc = "mv_update"
    /\ ReturnToLoop
    /\ att' = [att EXCEPT !.returned = TRUE]
    /\ UNCHANGED <<config, clients, drive, signal, resumed_from, loopvars>>
    /\ UNCHANGED hist

(* ---------------------------- interruption ---------------------------- *)

\* positions of the "while True" loop
LoopPcs ==
    {"cycle", "folder", "item", "download", "caption", "stage", "dispatch",
     "except", "mv_get", "mv_update", "sleep", "sleep_err"}

\* positions inside process_file (and the move_file it calls)
AttemptPcs ==
    {"download", "caption", "stage", "dispatch", "except", "mv_get", "mv_update"}

\* where a KeyboardInterrupt raised at position p ends: inside the try of main
\* it reaches "except KeyboardInterrupt" (lines 278-280); inside the handler
\* of "except Exception" (lines 282-283) nothing catches it
InterruptTarget(p) == IF p = "sleep_err" THEN "killed" ELSE "stopped"

\* KeyboardInterrupt at any position of the loop; the frames it unwinds are
\* dropped (locals reset) and the process is over (attempt record cleared)
Interrupt ==
    /\ pc \in LoopPcs
    /\ signal' = TRUE
    /\ pc' = InterruptTarget(pc)
    /\ items' = <<>>
    /\ ResetLocals
    /\ folder_idx' = 0
    /\ att' = NoAttempt
    /\ UNCHANGED <<config, clients, drive, resumed_from, current_prompts, prompt_reads,
                   prompts_changed>>
    /\ cycle_log' = EmptyLog
    /\ UNCHANGED delivered

Next ==
    \/ Startup
    \/ StartCycle
    \/ SkipFolder
    \/ ListFolder
    \/ ListFolderFails
    \/ FolderDone
    \/ CycleComplete
    \/ Wake
    \/ WakeAfterError
    \/ CallProcessFile
    \/ DescriptorFails
    \/ Download
    \/ DownloadFails
    \/ GenerateCaption
    \/ GenerateCaptionFails
    \/ Upload
    \/ UploadFails
    \/ SkipStaging
    \/ Dispatch
    \/ DispatchRaises
    \/ HandleError
    \/ MoveGet
    \/ MoveGetFails
    \/ MoveUpdate
    \/ MoveUpdateFails
    \/ Interrupt

Spec == Init /\ [][Next]_vars

(* ------------------ runs in which every call succeeds ----------------- *)

\* main, lines 242-245: get_drive_service returns a client
StartupWithService == Startup /\ service'

\* lines 224-231: the webhook answers with a status raise_for_status accepts
DispatchAccepted == Dispatch /\ ~raise_for_status(att'.response)

\* the steps of the program when no call to Drive, Gemini, the object store or
\* the webhook fails and nobody interrupts it
HappyNext ==
    \/ StartupWithService
    \/ StartCycle
    \/ SkipFolder
    \/ ListFolder
    \/ FolderDone
    \/ CycleComplete
    \/ Wake
    \/ CallProcessFile
    \/ Download
    \/ GenerateCaption
    \/ Upload
    \/ SkipStaging
    \/ DispatchAccepted
    \/ MoveGet
    \/ MoveUpdate

\* every call returns and every sleep ends
HappySpec == Init /\ [][HappyNext]_vars /\ WF_vars(HappyNext)

(* ------------------- a deployment with a config folder ---------------- *)

\* texts of override files: padded with whitespace, whitespace only, plain
PaddedText == <<" ", "\n", "crisp", " ", "tone", "\n">>
BlankText == <<" ", "\n">>
PlainText == <<"warm">>

\* contents of the config folder (its text/plain files, in listing order)
ConfigFolderStates ==
    {<<>>,
     <<TextFile("prompt_linkedin.txt", PaddedText)>>,
     <<TextFile("PROMPT_META.TXT", BlankText), TextFile("Prompt_Gbp.txt", PlainText)>>,
     <<TextFile("prompt_meta.txt", PlainText), TextFile("notes.txt", PaddedText),
       TextFile("prompt_meta.txt", <<>>)>>,
     <<TextFile("prompt_gbp.txt", PlainText), TextFile("prompt_gbp.txt", PaddedText)>>}

\* the config folder is edited while the program runs: every listing of
\* get_prompts finds one of these contents.  The gbp folder is not configured,
\* both terminal folders are, and the images are in the all folder
PromptInit ==
    /\ ID_LINKEDIN = "fL"
    /\ ID_META = "fM"
    /\ ID_GBP = None
    /\ ID_ALL = "fA"
    /\ ID_CONFIG \in {"fC", None}
    /\ ID_PROCESSED = "fP"
    /\ ID_ERRORS = "fE"
    /\ parents = [f \in FileIds |-> {"fA"}]
    /\ origin = parents
    /\ config_versions = ConfigFolderStates
    /\ config_files = <<>>
    /\ ProgramStart

PromptSpec == PromptInit /\ [][Next]_vars

\* time.sleep(60) returns after its interval (lines 276 and 283)
FairSpec == Spec /\ WF_vars(Wake) /\ WF_vars(WakeAfterError)

(* ====================================================================== *)
(*                              properties                                *)
(* ====================================================================== *)

BothConfigured == Configured(ID_PROCESSED) /\ Configured(ID_ERRORS)

\* the attempt's move ended with the file in folder d and nowhere else
RelocatedTo(d) == att.moved = d /\ parents[att.file] = {d}

\* what a call of move_file leaves behind: the destination alone when its
\* read and update succeeded, the parents as they were otherwise
MoveOutcome ==
    IF att.moved = None
    THEN parents[att.file] = att.before
    ELSE Len(att.moves) = 1 /\ att.moved = att.moves[1]
         /\ parents[att.file] = {att.moved}

\* the failures of the guarded steps of process_file
StepFailures == {"download", "caption", "dispatch"}

C2_AtMostOneMove ==
    /\ Len(att.moves) <= 1
    /\ \A i \in DOMAIN att.moves :
          Configured(att.moves[i]) /\ att.moves[i] \in {ID_PROCESSED, ID_ERRORS}
    /\ att.moved # None => att.moves = <<att.moved>>
    /\ att.file # 0 => ~({ID_PROCESSED, ID_ERRORS} \subseteq parents[att.file])

C2_Witness ==
    /\ att.returned
    /\ att.failed = "dispatch"
    /\ att.moves = <<ID_ERRORS>>
    /\ att.moved = None

\* C3 as stated: when a generate_caption call fails, no staging upload and no
\* webhook call is made, and the file is moved to the errors folder if that
\* folder is configured, otherwise it keeps its parents.
C3_CaptionFailureMoves ==
    att.failed = "caption" =>
        /\ att.uploads = 0 /\ att.posts = 0
        /\ att.returned =>
              IF Configured(ID_ERRORS) THEN RelocatedTo(ID_ERRORS)
              ELSE parents[att.file] = att.before

\* C3 amended: when a generate_caption call fails (the first, second or third
\* of the attempt), no staging upload and no webhook call is made; if the
\* errors folder is configured move_file is called once toward it and the file
\* ends there when that move succeeds and keeps its parents when the move
\* fails; if it is not configured no move is made and the parents are kept.
C3_CaptionFailureAborts ==
    att.failed = "caption" =>
        /\ att.uploads = 0 /\ att.posts = 0 /\ att.sent = EmptyPayload
        /\ att.returned =>
              /\ att.moves = IF Configured(ID_ERRORS) THEN <<ID_ERRORS>> ELSE <<>>
              /\ MoveOutcome

C3_Witness ==
    /\ att.failed = "caption"
    /\ att.type = "all"
    /\ att.gens = 3
    /\ att.returned
    /\ RelocatedTo(ID_ERRORS)

\* C4 as stated: a failure of download, caption generation or dispatch
\* relocates the file to the errors folder (if configured) and leaves the
\* iteration over the remaining files and folders untouched.
C4_FailureRelocatesAndContinues ==
    (att.failed \in StepFailures /\ pc \notin AttemptPcs /\ ~signal) =>
        /\ att.returned /\ pc = "item"
        /\ items = att.rest /\ folder_idx = att.folder
        /\ Configured(ID_ERRORS) => RelocatedTo(ID_ERRORS)

\* C4 amended: a failure of download, caption generation or dispatch ends
\* with process_file returning to the inner for loop, whose remaining files
\* and folder position are untouched, so the next file is the next one
\* processed; move_file is called toward the errors folder iff it is
\* configured, and the file ends there when that move succeeds and keeps its
\* parents when the move fails.
C4_FailureContained ==
    (att.failed \in StepFailures /\ pc \notin AttemptPcs /\ ~signal) =>
        /\ att.returned /\ pc = "item"
        /\ items = att.rest /\ folder_idx = att.folder
        /\ att.moves = IF Configured(ID_ERRORS) THEN <<ID_ERRORS>> ELSE <<>>
        /\ MoveOutcome

C4_Witness ==
    /\ att.failed = "download"
    /\ att.returned
    /\ RelocatedTo(ID_ERRORS)
    /\ pc = "item"
    /\ items # <<>>

\* C5 as stated: no exception of a processing attempt reaches the handler of
\* the poll loop (the loop's "except Exception" is never entered with an
\* attempt's exception).
C5_NoExceptionEscapes ==
    ~(pc = "sleep_err" /\ att.file # 0 /\ att.failed # "none")

CaptionFields == {"caption_linkedin", "caption_meta", "caption_gbp"}

\* C6: the payload of every webhook call has exactly the caption field of the
\* source type and target = that type (linkedin, meta, gbp), or exactly the
\* three caption fields and target = "all".
C6_PayloadFields ==
    att.posts >= 1 =>
        LET caps == (DOMAIN att.sent) \cap CaptionFields
        IN  /\ "target" \in DOMAIN att.sent
            /\ att.sent["target"] = <<att.type>>
            /\ att.type = "linkedin" => caps = {"caption_linkedin"}
            /\ att.type = "meta" => caps = {"caption_meta"}
            /\ att.type = "gbp" => caps = {"caption_gbp"}
            /\ att.type = "all" => caps = CaptionFields
            /\ att.type \in {"linkedin", "meta", "gbp", "all"}

C6_Witness ==
    /\ att.posts = 1
    /\ att.type = "all"
    /\ (DOMAIN att.sent) \cap CaptionFields = CaptionFields

\* C7 as stated: in every finished attempt, upload_to_r2 was invoked iff the
\* source type is meta or all and a staging client exists; in every other
\* case the dispatched payload has no image_url.
C7_StagedIffTypeAndClient ==
    att.returned =>
        /\ att.uploads >= 1 <=> (att.type \in {"meta", "all"} /\ r2_client)
        /\ (att.posts >= 1 /\ ~(att.type \in {"meta", "all"} /\ r2_client))
              => "image_url" \notin DOMAIN att.sent

\* the attempt is past line 215 (it is about to dispatch, or has dispatched)
PastStaging == att.file # 0 /\ (pc = "dispatch" \/ att.posts >= 1)

\* C7 amended: upload_to_r2 is invoked at most once per attempt and only for
\* source type meta or all with a staging client; in an attempt whose download
\* and caption generation succeeded it is invoked iff the source type is meta
\* or all and a staging client exists (an attempt that fails earlier makes no
\* upload); a dispatched payload has image_url only when the upload was made
\* and returned a URL.
C7_StagingDecision ==
    /\ att.uploads <= 1
    /\ att.uploads = 1 =>
          (att.type \in {"meta", "all"} /\ r2_client /\ att.gens = Len(CaptionPlan(att.type)))
    /\ att.failed \in {"download", "caption"} => att.uploads = 0
    /\ PastStaging =>
          (att.uploads = 1 <=> (att.type \in {"meta", "all"} /\ r2_client))
    /\ att.posts >= 1 =>
          ("image_url" \in DOMAIN att.sent <=> (att.uploads = 1 /\ ~att.upload_failed))

C7_Witness ==
    /\ att.returned
    /\ att.type = "meta"
    /\ r2_client
    /\ att.uploads = 1
    /\ "image_url" \in DOMAIN att.sent

\* C8 as stated (read with the processed folder configured): after a failed
\* upload the attempt still dispatches, with a payload without image_url, and
\* the file is relocated to the processed folder when the dispatch succeeds.
C8_UploadFailureStillRelocates ==
    (att.upload_failed /\ Configured(ID_PROCESSED)) =>
        /\ att.failed \in {"none", "dispatch"}
        /\ att.returned =>
              /\ att.posts = 1
              /\ "image_url" \notin DOMAIN att.sent
              /\ att.response \in 200..299 => RelocatedTo(ID_PROCESSED)

\* C8 amended: a failed upload raises nothing into process_file; the attempt
\* still makes its webhook call, with a payload without image_url; when the
\* dispatch succeeds move_file is called toward the processed folder iff that
\* folder is configured, and the file ends there when that move succeeds.
C8_UploadFailureTolerated ==
    att.upload_failed =>
        /\ att.failed \in {"none", "dispatch"}
        /\ pc = "except" => att.posts = 1
        /\ att.returned =>
              /\ att.posts = 1
              /\ "image_url" \notin DOMAIN att.sent
              /\ att.failed = "none" =>
                    att.moves = IF Configured(ID_PROCESSED) THEN <<ID_PROCESSED>> ELSE <<>>
              /\ MoveOutcome

C8_Witness ==
    /\ att.upload_failed
    /\ att.returned
    /\ att.response = 200
    /\ "image_url" \notin DOMAIN att.sent
    /\ RelocatedTo(ID_PROCESSED)

\* C9: with neither terminal folder configured move_file is never called and
\* the parents of the file of an attempt stay what they were when it began,
\* whether the attempt succeeds or fails.
C9_NoRelocationUnconfigured ==
    (~Configured(ID_PROCESSED) /\ ~Configured(ID_ERRORS)) =>
        /\ att.moves = <<>>
        /\ att.moved = None
        /\ pc \notin {"mv_get", "mv_update"}
        /\ att.file # 0 => parents[att.file] = att.before

C9_Witness ==
    /\ ~Configured(ID_PROCESSED) /\ ~Configured(ID_ERRORS)
    /\ att.returned
    /\ att.failed = "dispatch"
    /\ parents[att.file] = att.before

\* C10: the loop is left only by a KeyboardInterrupt; after an exception of a
\* cycle nothing more of that cycle runs, the handler sleeps, and a new cycle
\* is started unless the process is interrupted first.
C10_LoopSurvivesExceptions ==
    /\ [](pc \in {"stopped", "killed"} => signal)
    /\ [][(pc \in LoopPcs) => (pc' \in (LoopPcs \cup {"stopped", "killed"}))]_vars
    /\ [][(pc = "sleep_err") => (pc' \in {"cycle", "killed"})]_vars
    /\ (pc = "sleep_err") ~> (pc = "cycle" \/ signal)

C10_Witness ==
    /\ pc = "cycle"
    /\ resumed_from = "sleep_err"
    /\ ~signal

\* C11 as stated: a KeyboardInterrupt delivered at any position of the running
\* loop is handled by "except KeyboardInterrupt" (the loop is left through its
\* clean stop path) and no further cycle is started.
C11_InterruptStopsCleanly ==
    signal => pc = "stopped"

(* ------------------------------ prompts -------------------------------- *)

PromptKeys == {"linkedin", "meta", "gbp"}

\* C12: get_prompts never raises (the step that calls it always goes on to
\* the for loop of the cycle) and returns a Prompt Set with exactly the keys
\* linkedin, meta and gbp; without a config folder id, and whenever nothing
\* was listed and downloaded (the listing failed), it is the all-default set.
C12_PromptsTotal ==
    /\ [](/\ DOMAIN current_prompts = PromptKeys
          /\ (~Configured(ID_CONFIG) \/ prompt_reads = {}) =>
                current_prompts = DefaultPrompts)
    /\ [][(pc = "cycle" /\ ~signal') => pc' = "folder"]_vars

C12_Witness ==
    /\ pc = "folder"
    /\ Configured(ID_CONFIG)
    /\ config_files = <<TextFile("prompt_linkedin.txt", PaddedText)>>
    /\ prompt_reads = {}
    /\ current_prompts = DefaultPrompts

\* r is the text c without its leading and trailing whitespace
IsTrimOf(r, c) ==
    \E i \in 1..(Len(c) + 1), j \in 0..Len(c) :
        /\ r = SubSeq(c, i, j)
        /\ \A k \in 1..Len(c) : (k < i \/ k > j) => c[k] \in Whitespace
        /\ r # <<>> => (r[1] \notin Whitespace /\ r[Len(r)] \notin Whitespace)

\* the spellings of a target's override file name
OverrideNames(t) ==
    CASE t = "linkedin" -> {"prompt_linkedin.txt"}
      [] t = "meta" -> {"prompt_meta.txt", "PROMPT_META.TXT"}
      [] t = "gbp" -> {"prompt_gbp.txt", "Prompt_Gbp.txt"}

\* the listed and downloaded override files of target t that hold more than
\* whitespace, by position in the listing
Overrides(t) ==
    {i \in prompt_reads :
        /\ config_files[i].name \in OverrideNames(t)
        /\ \E k \in 1..Len(config_files[i].content) :
              config_files[i].content[k] \notin Whitespace}

\* C13: for each target independently, the prompt is the trimmed content of
\* the target's override file when that file was listed, downloaded and is
\* not empty after trimming (the last such file when several carry the name),
\* and the built-in default otherwise.
C13_PromptPerTarget ==
    \A t \in PromptKeys :
        IF Overrides(t) = {}
        THEN current_prompts[t] = DefaultPrompts[t]
        ELSE LET last == CHOOSE i \in Overrides(t) : \A j \in Overrides(t) : j <= i
             IN  IsTrimOf(current_prompts[t], config_files[last].content)

C13_Witness ==
    /\ pc = "folder"
    /\ config_files =
          <<TextFile("PROMPT_META.TXT", BlankText), TextFile("Prompt_Gbp.txt", PlainText)>>
    /\ prompt_reads = {1, 2}
    /\ current_prompts =
          [DefaultPrompts EXCEPT !.gbp = PlainText]

\* a padded override is in effect, trimmed
C13_TrimmedInEffect ==
    /\ config_files = <<TextFile("prompt_linkedin.txt", PaddedText)>>
    /\ current_prompts.linkedin = <<"crisp", " ", "tone">>

\* every caption among the form fields p was generated from the Prompt Set
CaptionsFrom(p, prompts) ==
    \A t \in PromptKeys :
        CaptionField(t) \in DOMAIN p => p[CaptionField(t)] = Caption(prompts[t])

\* C14: the Prompt Set is resolved once, at the start of each cycle, from what
\* the config folder holds then, and never carried over from the cycle before;
\* every caption of the cycle is generated from that snapshot, and no step
\* other than the start of a cycle changes it.
C14_SnapshotPerCycle ==
    /\ [](/\ C13_PromptPerTarget
          /\ CaptionsFrom(payload, current_prompts)
          /\ CaptionsFrom(att.sent, current_prompts))
    /\ [][current_prompts' # current_prompts => (pc = "cycle" /\ pc' = "folder")]_vars
    /\ [][(pc = "cycle" /\ pc' = "folder") => C13_PromptPerTarget']_vars

\* an override edited in after an earlier cycle is used for all three captions
\* of a file of a later cycle
C14_Witness ==
    /\ prompts_changed
    /\ att.type = "all" /\ att.posts = 1
    /\ config_files =
          <<TextFile("prompt_gbp.txt", PlainText), TextFile("prompt_gbp.txt", PaddedText)>>
    /\ att.sent["caption_gbp"] = Caption(<<"crisp", " ", "tone">>)
    /\ att.sent["caption_meta"] = Caption(DEFAULT_PROMPT_META)

(* ------------------------------ the cycle ------------------------------ *)

\* positions in folder_map of the configured source folders file f was in
\* when the program started
SourcePositions(f) ==
    {i \in 1..Len(folder_map) :
        Configured(folder_map[i][1]) /\ folder_map[i][1] \in origin[f]}

\* C15 as stated: within one cycle every file is processed at most once, under
\* exactly one source type, whatever its parents and whatever becomes of its
\* relocation.
C15_OncePerCycle ==
    \A f \in FileIds : Len(cycle_log[f]) <= 1

\* C15 amended: within one cycle a file is processed at most once under each
\* configured source folder it belongs to, with the types of these folders in
\* the order of folder_map, and not again once an attempt has relocated it;
\* so at most once, under one type, when it belongs to one source folder only.
C15_OncePerSourceFolder ==
    \A f \in FileIds :
        /\ cycle_log[f] # <<>> =>
              LET log == cycle_log[f]
                  fm == folder_map
                  src == {i \in 1..Len(fm) : Configured(fm[i][1]) /\ fm[i][1] \in origin[f]}
              IN  /\ Len(log) <= Cardinality(src)
                  /\ \A k \in 1..Len(log) :
                        \E i \in src :
                            /\ log[k] = fm[i][2]
                            /\ Cardinality({j \in src : j < i}) >= k - 1
                  /\ \A k, l \in 1..Len(log) : k # l => log[k] # log[l]
        /\ parents[f] # origin[f] =>
              /\ cycle_log[f] = <<>>
              /\ file_id # f
              /\ \A k \in 1..Len(items) : items[k] # f

C15_Witness ==
    \E f \in FileIds :
        /\ origin[f] = {"fL", "fA"}
        /\ cycle_log[f] = <<"linkedin", "all">>
        /\ att.file = f /\ att.posts = 1

(* ------------------------------- startup ------------------------------- *)

\* no prompt resolution, listing, processing, webhook call or relocation has
\* taken place
NothingDone ==
    /\ current_prompts = DefaultPrompts /\ prompt_reads = {} /\ config_files = <<>>
    /\ folder_idx = 0 /\ items = <<>> /\ cycle_log = EmptyLog
    /\ file_id = 0 /\ payload = EmptyPayload /\ att = NoAttempt
    /\ delivered = {}
    /\ destination_folder_id = None /\ parents = origin

\* C16: when get_drive_service returned None, main returns at once: the loop
\* is never entered, nothing is resolved, listed, processed, posted or moved,
\* and the process takes no further step.
C16_NoServiceNoLoop ==
    /\ []((pc # "main" /\ ~service) => (pc = "exited" /\ ~signal /\ NothingDone))
    /\ [](pc = "exited" => ~service)
    /\ [][pc # "exited"]_vars

C16_Witness ==
    pc = "exited" /\ ~service /\ NothingDone

(* ------------------------------ move_file ------------------------------ *)

\* C17: move_file reads the file's parents, then issues one update that adds
\* the destination and removes every parent read: after a move that succeeded
\* the file's parents are the destination alone.  A failure of the read or of
\* the update is absorbed (control returns to the for loop of main, never to
\* an except clause) and leaves the parents of every file as they were.
C17_MoveReplacesParents ==
    /\ [][(pc = "mv_get" /\ pc' = "mv_update") =>
            (previous_parents' = parents[file_id] /\ parents' = parents)]_vars
    /\ [][(pc = "mv_update" /\ parents' # parents) =>
            /\ parents'[file_id] = {destination_folder_id}
            /\ \A g \in FileIds \ {file_id} : parents'[g] = parents[g]
            /\ att'.moved = destination_folder_id]_vars
    /\ [][(pc \in {"mv_get", "mv_update"} /\ ~signal') =>
            /\ pc' \in {"mv_update", "item"}
            /\ (pc' = "item" /\ att'.moved = None) => parents' = parents]_vars
    /\ [][parents' # parents => pc = "mv_update"]_vars
    /\ [](att.file # 0 =>
            /\ att.moved # None => parents[att.file] = {att.moved}
            /\ att.moved = None => parents[att.file] = att.before)

C17_Witness ==
    /\ att.returned
    /\ att.before = {"fL", "fA"}
    /\ att.moved = "fP"
    /\ parents[att.file] = {"fP"}

\* a move that failed after its read: the file is where it was
C17_AbsorbedFailure ==
    /\ att.returned /\ att.moves = <<"fE">> /\ att.moved = None
    /\ parents[att.file] = att.before
    /\ pc = "item"

(* --------------------------- order of the steps ------------------------ *)

\* the calls of an attempt on a file of type st that go through to the webhook
StepsOf(st, staged) ==
    <<"download">>
    \o (CASE st = "linkedin" -> <<"caption_linkedin">>
          [] st = "meta" -> <<"caption_meta">>
          [] st = "gbp" -> <<"caption_gbp">>
          [] st = "all" -> <<"caption_linkedin", "caption_meta", "caption_gbp">>
          [] OTHER -> <<>>)
    \o (IF staged THEN <<"upload">> ELSE <<>>)
    \o <<"post">>

IsPrefix(s, t) == Len(s) <= Len(t) /\ s = SubSeq(t, 1, Len(s))

\* the calls of the attempt before its call of move_file
BeforeMove(tr) ==
    IF tr # <<>> /\ tr[Len(tr)] = "move" THEN SubSeq(tr, 1, Len(tr) - 1) ELSE tr

\* C18: the calls of an attempt are made in the order download, captions (for
\* type all: linkedin, meta, gbp), staging upload where it applies, one webhook
\* call, move_file; a call that failed (staging excepted) is followed by
\* nothing but the move of the except clause; move_file is called last and
\* only after a webhook call that succeeded or a failure; at most one webhook
\* call is made; and process_file is not called for the next file before the
\* attempt on the previous one has returned (or has raised at its descriptor).
C18_StepOrder ==
    /\ [](att.file # 0 =>
            LET core == BeforeMove(att.trace)
                steps == StepsOf(att.type, att.type \in {"meta", "all"} /\ r2_client)
            IN  /\ IsPrefix(core, steps)
                /\ \A k \in 1..Len(core) : core[k] # "move"
                /\ att.failed = "download" => core = <<"download">>
                /\ att.failed = "caption" =>
                      core[Len(core)] \in {"caption_linkedin", "caption_meta", "caption_gbp"}
                /\ att.failed = "dispatch" => core[Len(core)] = "post"
                /\ core # att.trace =>
                      \/ att.failed \in StepFailures
                      \/ core = steps /\ att.response > 0 /\ att.response < 400
                /\ att.posts = Cardinality({k \in 1..Len(core) : core[k] = "post"})
                /\ att.posts <= 1)
    /\ [](pc \in AttemptPcs => (att.file = file_id /\ ~att.returned))
    /\ [][(pc' = "download" /\ pc # "download") =>
            (att.file = 0 \/ att.returned \/ att.failed = "descriptor") /\ att'.trace = <<>>]_vars

C18_Witness ==
    /\ att.returned
    /\ att.type = "all" /\ r2_client
    /\ att.trace = <<"download", "caption_linkedin", "caption_meta", "caption_gbp",
                     "upload", "post", "move">>
    /\ att.rest # <<>>

(* ----------------------------- redelivery ------------------------------ *)

\* the webhook call of the attempt returned a response raise_for_status accepts
Accepted == att.response > 0 /\ att.response < 400

TerminalFolders == {ID_PROCESSED, ID_ERRORS}
SourceFolders == {ID_LINKEDIN, ID_META, ID_GBP, ID_ALL}

\* file f has been relocated: all its parents are terminal folders
Relocated(f) == parents[f] # {} /\ parents[f] \subseteq TerminalFolders

\* a relocated file is not in the files being processed, and stays relocated
C20_NeverListedAgain ==
    /\ []((BothConfigured /\ TerminalFolders \cap SourceFolders = {}) =>
            \A f \in FileIds : Relocated(f) =>
                /\ pc \in AttemptPcs => (file_id # f \/ pc \in {"mv_get", "mv_update"})
                /\ \A k \in 1..Len(items) : items[k] # f
                /\ \A i \in 1..Len(folder_map) : f \notin Listing(folder_map[i][1]))
    /\ [][\A f \in FileIds : Relocated(f) => parents'[f] = parents[f]]_vars

\* the files of the configured source folders are all in the processed folder
\* (where a file gets only after its dispatch) and none awaits relocation
AllProcessed ==
    /\ \A f \in FileIds : SourcePositions(f) # {} => parents[f] = {ID_PROCESSED}
    /\ delivered = {}

\* C20: with both terminal folders configured and neither of them a source
\* folder, a file that has been relocated is never listed or processed again;
\* and when every external call succeeds, no attempt is made on a file that
\* was dispatched before, every move goes to the processed folder, and every
\* file of a configured source folder is eventually dispatched and stays in
\* the processed folder: it is dispatched exactly once.
C20_DeliveredOnce ==
    /\ C20_NeverListedAgain
    /\ [](BothConfigured =>
            /\ ~att.known
            /\ att.posts <= 1
            /\ att.moved \in {None, ID_PROCESSED}
            /\ \A f \in FileIds :
                  /\ f \in delivered => (att.file = f /\ ~att.returned)
                  /\ parents[f] = {ID_PROCESSED} => f \notin delivered)
    /\ (BothConfigured /\ service) ~> [](AllProcessed)

C20_Witness ==
    /\ BothConfigured /\ TerminalFolders \cap SourceFolders = {}
    /\ ID_GBP # None
    /\ origin[1] = {"fL", "fA"}
    /\ AllProcessed
    /\ att.posts = 1 /\ att.moved = ID_PROCESSED
    /\ pc = "item" /\ folder_map[folder_idx][2] = "linkedin" /\ items = <<>>

====
